---- MODULE Spec2Model ----
(***************************************************************************)
(* Model of the GMSFS filesystem facade (src/GMSFSv2.go).                  *)
(*                                                                         *)
(* A path is a sequence of one-character strings.  The filesystem is a     *)
(* function from keys (sequences of entry names, the root being <<>>) to   *)
(* nodes; the working directory of the process is the root.  The debug     *)
(* marker GMSFS.Debug and the dated log file live in the working directory *)
(* under names outside the modelled alphabet and are kept in variables of  *)
(* their own.                                                              *)
(***************************************************************************)
EXTENDS Integers, Sequences, FiniteSets, TLC

VARIABLES fs, debug, logLines, last

vars == <<fs, debug, logLines, last>>

(***************************************************************************)
(* Bounds of the model                                                     *)
(***************************************************************************)
\* longest path string the operating system accepts (PATH_MAX)
PathMax == 5
\* symbolic links followed in one path resolution before ELOOP
MaxSymlinks == 2
\* entries (besides the root) a filesystem may hold when a call starts
MaxNodes == 3
\* nested errorPrinter frames the goroutine stack holds before the runtime
\* aborts the process
StackLimit == 3
\* file descriptors a process may hold open (RLIMIT_NOFILE): a limit the
\* stack outlasts, and one it does not
FdLow == 2
FdHigh == 6
\* lines the current log file may hold when a call starts
MaxLog == 0
\* longest file content a call may leave behind
MaxLen == 1

(***************************************************************************)
(* Strings                                                                 *)
(***************************************************************************)
\* byte value of a character of the alphabet
Ord(c) ==
  CASE c = "*" -> 42
    [] c = "." -> 46
    [] c = "/" -> 47
    [] c = ":" -> 58
    [] c = "a" -> 97
    [] c = "b" -> 98
    [] c = "c" -> 99

\* Go's < on strings: bytewise lexicographic
RECURSIVE StrLess(_, _)
StrLess(s, t) ==
  IF t = <<>> THEN FALSE
  ELSE IF s = <<>> THEN TRUE
  ELSE IF Ord(Head(s)) # Ord(Head(t)) THEN Ord(Head(s)) < Ord(Head(t))
  ELSE StrLess(Tail(s), Tail(t))

\* index of the first occurrence of character c in s, 0 when absent
RECURSIVE IndexFrom(_, _, _)
IndexFrom(s, c, i) ==
  IF i > Len(s) THEN 0
  ELSE IF s[i] = c THEN i
  ELSE IndexFrom(s, c, i + 1)

IndexOf(s, c) == IndexFrom(s, c, 1)

\* strings.Split(s, "/")
RECURSIVE SplitSlash(_)
SplitSlash(s) ==
  LET i == IndexOf(s, "/") IN
    IF i = 0 THEN <<s>>
    ELSE <<SubSeq(s, 1, i - 1)>> \o SplitSlash(SubSeq(s, i + 1, Len(s)))

\* strings.Join(parts, "/")
RECURSIVE JoinSlash(_)
JoinSlash(parts) ==
  IF parts = <<>> THEN <<>>
  ELSE IF Len(parts) = 1 THEN parts[1]
  ELSE parts[1] \o <<"/">> \o JoinSlash(Tail(parts))

Dot == <<".">>
DotDot == <<".", ".">>

\* the lexical processing of filepath.Clean: drop empty and "." elements,
\* let ".." cancel the element before it
RECURSIVE CleanParts(_, _, _)
CleanParts(parts, out, rooted) ==
  IF parts = <<>> THEN out
  ELSE LET p == Head(parts)
           rest == Tail(parts)
       IN IF p = <<>> \/ p = Dot THEN CleanParts(rest, out, rooted)
          ELSE IF p = DotDot
            THEN IF out # <<>> /\ out[Len(out)] # DotDot
                   THEN CleanParts(rest, SubSeq(out, 1, Len(out) - 1), rooted)
                 ELSE IF rooted THEN CleanParts(rest, out, rooted)
                 ELSE CleanParts(rest, Append(out, p), rooted)
          ELSE CleanParts(rest, Append(out, p), rooted)

\* filepath.Clean
Clean(path) ==
  IF path = <<>> THEN Dot
  ELSE LET Joined(rooted, body) ==
             IF rooted THEN <<"/">> \o body
             ELSE IF body = <<>> THEN Dot
             ELSE body
           Rooted(rooted) ==
             Joined(rooted, JoinSlash(CleanParts(SplitSlash(path), <<>>, rooted)))
       IN Rooted(path[1] = "/")

\* filepath.Join of two elements
Join(a, b) ==
  IF a = <<>> /\ b = <<>> THEN <<>>
  ELSE IF a = <<>> THEN Clean(b)
  ELSE IF b = <<>> THEN Clean(a)
  ELSE Clean(a \o <<"/">> \o b)

\* cleanPath: Clean, then drop everything up to the first colon
cleanPath(path) ==
  LET After(p, i) == IF i = 0 THEN p ELSE SubSeq(p, i + 1, Len(p))
      Cleaned(p) == After(p, IndexOf(p, ":"))
  IN Cleaned(Clean(path))

(***************************************************************************)
(* The filesystem                                                          *)
(***************************************************************************)
Root == <<>>

FileNode(data, mode) == [kind |-> "file", data |-> data, mode |-> mode, tgt |-> <<>>]
DirNode(mode) == [kind |-> "dir", data |-> <<>>, mode |-> mode, tgt |-> <<>>]
LinkNode(tgt) == [kind |-> "link", data |-> <<>>, mode |-> 511, tgt |-> tgt]

\* permission bits a newly created entry gets: perm &^ umask, umask 022
Umask(perm) == perm - 16 * ((perm \div 16) % 2) - 2 * ((perm \div 2) % 2)

Parent(key) == IF key = <<>> THEN <<>> ELSE SubSeq(key, 1, Len(key) - 1)

IsPrefix(p, k) == Len(p) <= Len(k) /\ SubSeq(k, 1, Len(p)) = p

Children(f, key) == {k \in DOMAIN f : Len(k) = Len(key) + 1 /\ IsPrefix(key, k)}

Put(f, key, node) == [k \in DOMAIN f \cup {key} |-> IF k = key THEN node ELSE f[k]]

Drop(f, keys) == [k \in DOMAIN f \ keys |-> f[k]]

Ok(key) == [err |-> "", key |-> key, creatable |-> FALSE]
Missing(key) == [err |-> "ENOENT", key |-> key, creatable |-> TRUE]
Fail(e) == [err |-> e, key |-> <<>>, creatable |-> FALSE]

\* the kernel's path walk from the working directory: cur is a resolved
\* entry, comps the elements still to walk
RECURSIVE Walk(_, _, _, _, _)
Walk(f, comps, cur, follow, fuel) ==
  IF comps = <<>> THEN Ok(cur)
  ELSE IF f[cur].kind # "dir" THEN Fail("ENOTDIR")
  ELSE LET c == Head(comps)
           rest == Tail(comps)
           child == Append(cur, c)
       IN IF c = Dot THEN Walk(f, rest, cur, follow, fuel)
          ELSE IF c = DotDot THEN Walk(f, rest, Parent(cur), follow, fuel)
          ELSE IF child \notin DOMAIN f
            THEN IF rest = <<>> THEN Missing(child) ELSE Fail("ENOENT")
          ELSE IF f[child].kind = "link" /\ (rest # <<>> \/ follow)
            THEN IF fuel = 0 THEN Fail("ELOOP")
                 ELSE Walk(f, f[child].tgt \o rest, Root, follow, fuel - 1)
          ELSE Walk(f, rest, child, follow, fuel)

\* resolution of a path string by a system call
Lookup(f, s, follow) ==
  IF s = <<>> THEN Fail("ENOENT")
  ELSE IF Len(s) > PathMax THEN Fail("ENAMETOOLONG")
  ELSE LET Walked(slash, r) ==
             IF slash /\ r.err = "" /\ f[r.key].kind # "dir" THEN Fail("ENOTDIR")
             ELSE IF slash /\ r.creatable THEN [r EXCEPT !.creatable = FALSE]
             ELSE r
           Slashed(slash) ==
             Walked(slash, Walk(f, SelectSeq(SplitSlash(s), LAMBDA p : p # <<>>), Root,
                                follow \/ slash, MaxSymlinks))
       IN Slashed(s[Len(s)] = "/")

\* a test that takes every path for missing
IsNotExistAlways(err) == TRUE

\* os.IsNotExist
IsNotExist(err) == err = "ENOENT"

\* os.Stat
osStat(f, s) == Lookup(f, s, TRUE)

\* os.Lstat
osLstat(f, s) == Lookup(f, s, FALSE)

\* names of the entries of directory key, sorted as sort.Slice / os.ReadDir
\* leave them
RECURSIVE SortNames(_)
SortNames(S) ==
  IF S = {} THEN <<>>
  ELSE LET m == CHOOSE x \in S : \A y \in S \ {x} : StrLess(x, y)
       IN <<m>> \o SortNames(S \ {m})

EntryNames(f, key) == {k[Len(k)] : k \in Children(f, key)}

\* the order in which the kernel hands out the entries of a directory: any
\* order; the model takes the descending one
RECURSIVE DirOrder(_)
DirOrder(S) ==
  IF S = {} THEN <<>>
  ELSE LET m == CHOOSE x \in S : \A y \in S \ {x} : StrLess(y, x)
       IN <<m>> \o DirOrder(S \ {m})

\* sort.Slice(dirs, func(i, j) { return dirs[i].Name() < dirs[j].Name() }),
\* by insertion
RECURSIVE InsertSorted(_, _)
InsertSorted(sorted, x) ==
  IF sorted = <<>> THEN <<x>>
  ELSE IF StrLess(x, Head(sorted)) THEN <<x>> \o sorted
  ELSE <<Head(sorted)>> \o InsertSorted(Tail(sorted), x)

\* the entries left in the order the kernel handed them out
SortSliceNone(names) == names

RECURSIVE SortSlice(_)
SortSlice(names) ==
  IF names = <<>> THEN <<>>
  ELSE InsertSorted(SortSlice(Tail(names)), Head(names))

\* os.Open: read-only, follows symbolic links, opens directories too
osOpen(f, s) == Lookup(f, s, TRUE)

\* os.OpenFile with O_CREATE for writing (trunc: O_TRUNC): the entry the
\* handle refers to and the filesystem after the call
osOpenWrite(f, s, perm, trunc, disk) ==
  LET At(r) ==
        IF r.err = "" /\ f[r.key].kind = "dir" THEN [err |-> "EISDIR", key |-> <<>>, fs |-> f]
        ELSE IF r.err # "" /\ ~r.creatable THEN [err |-> r.err, key |-> <<>>, fs |-> f]
        ELSE IF disk = "ro" THEN [err |-> "EROFS", key |-> <<>>, fs |-> f]
        ELSE IF r.err = ""
          THEN [err |-> "", key |-> r.key,
                fs |-> IF trunc THEN [f EXCEPT ![r.key].data = <<>>] ELSE f]
        ELSE [err |-> "", key |-> r.key, fs |-> Put(f, r.key, FileNode(<<>>, Umask(perm)))]
  IN At(Lookup(f, s, TRUE))

\* os.Create: O_RDWR|O_CREATE|O_TRUNC, 0666
osCreate(f, s, disk) == osOpenWrite(f, s, 438, TRUE, disk)

\* (*File).Write on the entry a handle refers to
osWrite(f, key, content, disk) ==
  IF content # <<>> /\ disk = "full" THEN [err |-> "ENOSPC", fs |-> f]
  ELSE [err |-> "", fs |-> [f EXCEPT ![key].data = @ \o content]]

\* the path MkdirAll recurses on: path up to, not including, its last element
RECURSIVE TrimSlashes(_)
TrimSlashes(s) ==
  IF s # <<>> /\ s[Len(s)] = "/" THEN TrimSlashes(SubSeq(s, 1, Len(s) - 1)) ELSE s

RECURSIVE TrimElement(_)
TrimElement(s) ==
  IF s # <<>> /\ s[Len(s)] # "/" THEN TrimElement(SubSeq(s, 1, Len(s) - 1)) ELSE s

\* os.Mkdir: the last element is not followed when it is a symbolic link
osMkdir(f, s, perm, disk) ==
  LET At(r) ==
        IF r.err = "" THEN [err |-> "EEXIST", fs |-> f]
        ELSE IF ~r.creatable THEN [err |-> r.err, fs |-> f]
        ELSE IF disk = "ro" THEN [err |-> "EROFS", fs |-> f]
        ELSE [err |-> "", fs |-> Put(f, r.key, DirNode(Umask(perm)))]
      Trimmed(t) ==
        At(IF Len(s) > PathMax THEN Fail("ENAMETOOLONG")
           ELSE Lookup(f, IF t = <<>> THEN s ELSE t, FALSE))
  IN Trimmed(TrimSlashes(s))

\* os.MkdirAll
RECURSIVE osMkdirAll(_, _, _, _)
osMkdirAll(f, s, perm, disk) ==
  LET Made(up, mk, ls) ==
        IF mk.err = "" THEN mk
        ELSE IF ls.err = "" /\ up.fs[ls.key].kind = "dir" THEN [err |-> "", fs |-> up.fs]
        ELSE mk
      Above(up) ==
        IF up.err # "" THEN up
        ELSE Made(up, osMkdir(up.fs, s, perm, disk), osLstat(up.fs, s))
      Upward(head) ==
        Above(IF Len(head) > 1
                THEN osMkdirAll(f, SubSeq(head, 1, Len(head) - 1), perm, disk)
              ELSE [err |-> "", fs |-> f])
      Statted(st) ==
        IF st.err = ""
          THEN IF f[st.key].kind = "dir" THEN [err |-> "", fs |-> f]
               ELSE [err |-> "ENOTDIR", fs |-> f]
        ELSE Upward(TrimElement(TrimSlashes(s)))
  IN Statted(osStat(f, s))

\* os.ReadDir: the names of the entries of a directory, sorted by name
osReadDir(f, s) ==
  LET At(r) ==
        IF r.err # "" THEN [err |-> r.err, key |-> <<>>, names |-> <<>>]
        ELSE IF f[r.key].kind # "dir" THEN [err |-> "ENOTDIR", key |-> <<>>, names |-> <<>>]
        ELSE [err |-> "", key |-> r.key, names |-> SortNames(EntryNames(f, r.key))]
  IN At(osOpen(f, s))

\* os.Chmod
osChmod(f, s, mode, disk) ==
  LET At(r) ==
        IF r.err # "" THEN [err |-> r.err, fs |-> f]
        ELSE IF disk = "ro" THEN [err |-> "EROFS", fs |-> f]
        ELSE [err |-> "", fs |-> [f EXCEPT ![r.key].mode = mode]]
  IN At(Lookup(f, s, TRUE))

(***************************************************************************)
(* The facade.  A world is what a call works on: the filesystem, the lines *)
(* of the log file, the handles the call holds open, whether the process   *)
(* has been aborted by the runtime, and the system call (if any) that      *)
(* fails with an I/O error during the call.                                *)
(***************************************************************************)
World(f, n, flt, nofile) ==
  [fs |-> f, log |-> n, open |-> 0, crash |-> FALSE, flt |-> flt, nofile |-> nofile]

\* no file descriptor is left for another open (EMFILE)
NoDescriptor(w) == w.open >= w.nofile

\* the condition of the disk during the call: full (every write of data
\* fails), mounted read-only (nothing can be opened for writing), or neither
Disk(w) == IF w.flt \in {"full", "ro"} THEN w.flt ELSE "ok"

\* a handle was opened / is closed by the call; a dead process closes nothing
Opened(w) == [w EXCEPT !.open = @ + 1]
Closed(w) == IF w.crash THEN w ELSE [w EXCEPT !.open = @ - 1]

\* "GMSFS." + time.Now().Format(timeFlat) + ".log", in the working directory
LogName == <<"GMSFS.log">>
LogLine == <<"line">>

\* an errorPrinter that writes nothing
errorPrinterOff(w, depth) == w

\* errorPrinter and Append call each other: errorPrinter appends the line with
\* AppendStringToFile, and Append reports a failed write with errorPrinter
RECURSIVE errorPrinterAt(_, _)
RECURSIVE AppendAt(_, _, _, _)

\* errorPrinter, called with `depth` errorPrinter frames already on the stack
errorPrinterAt(w, depth) ==
  IF w.crash \/ ~debug THEN w
  ELSE IF depth >= StackLimit THEN [w EXCEPT !.crash = TRUE]
  ELSE AppendAt(w, LogName, LogLine, depth + 1).w

\* Append
AppendAt(w, name, content, depth) ==
  LET Written(w1, wr) ==
        IF wr.err # ""
          THEN [w |-> Closed(errorPrinterAt(w1, depth)), err |-> wr.err]
        ELSE [w |-> Closed([w1 EXCEPT !.fs = wr.fs,
                                      !.log = IF name = LogName THEN @ + 1 ELSE @]),
              err |-> ""]
      Write(file, w1) ==
        Written(w1, IF name = LogName
                      THEN [err |-> IF Disk(w) = "full" THEN "ENOSPC" ELSE "", fs |-> w1.fs]
                    ELSE osWrite(w1.fs, file.key, content, Disk(w)))
      OpenFile(file) ==
        IF file.err # "" THEN [w |-> w, err |-> file.err]
        ELSE Write(file, Opened([w EXCEPT !.fs = file.fs]))
  IN OpenFile(IF NoDescriptor(w) THEN [err |-> "EMFILE", key |-> <<>>, fs |-> w.fs]
              ELSE IF name = LogName
                THEN [err |-> IF Disk(w) = "ro" THEN "EROFS" ELSE "", key |-> <<>>, fs |-> w.fs]
              ELSE osOpenWrite(w.fs, name, 420, FALSE, Disk(w)))

errorPrinter(w) == errorPrinterAt(w, 0)

\* Append, as the application calls it
AppendFile(w, name, content) == AppendAt(w, name, content, 0)

\* AppendStringToFile
AppendStringToFile(w, name, content) == AppendFile(w, name, content)

\* Open: the handle goes to the caller
Open(w, name) ==
  LET Got(file) ==
        IF file.err # "" THEN [w |-> errorPrinter(w), err |-> file.err]
        ELSE [w |-> w, err |-> ""]
  IN Got(osOpen(w.fs, cleanPath(name)))

\* Create: the handle goes to the caller
Create(w, name) ==
  LET Got(file) ==
        IF file.err # "" THEN [w |-> errorPrinter(w), err |-> file.err]
        ELSE [w |-> [w EXCEPT !.fs = file.fs], err |-> ""]
  IN Got(osCreate(w.fs, cleanPath(name), Disk(w)))

\* deferred closes that forget the source handle
CopyFileDefersLeaky(w, err, outOpen) ==
  IF outOpen THEN [w |-> Closed(w), err |-> IF w.flt = "close" THEN "EIO" ELSE err]
  ELSE [w |-> w, err |-> err]

\* the deferred closes of CopyFile: out.Close() (its error replaces err), then
\* in.Close()
CopyFileDefers(w, err, outOpen) ==
  IF w.crash THEN [w |-> w, err |-> err]
  ELSE IF outOpen
    THEN [w |-> Closed(Closed(w)), err |-> IF w.flt = "close" THEN "EIO" ELSE err]
  ELSE [w |-> Closed(w), err |-> err]

\* a CopyFile that creates dst before it opens src
CopyFileCreateFirst(w, src, dst) ==
  LET Both(out, in) ==
        IF out.err # "" THEN [w |-> errorPrinter(w), err |-> out.err]
        ELSE [w |-> errorPrinter([w EXCEPT !.fs = out.fs]),
              err |-> IF in.err # "" THEN in.err ELSE "EIO"]
      Created(out) == Both(out, osOpen(out.fs, cleanPath(src)))
  IN Created(osCreate(w.fs, cleanPath(dst), Disk(w)))

\* the last step of CopyFile: os.Chmod(dst, si.Mode())
CopyFileChmod(w, d, mode) ==
  LET Got(ch) ==
        IF ch.err # "" THEN CopyFileDefers(errorPrinter(w), ch.err, TRUE)
        ELSE CopyFileDefers([w EXCEPT !.fs = ch.fs], "", TRUE)
  IN Got(IF w.flt = "chmod" THEN [err |-> "EPERM", fs |-> w.fs]
         ELSE osChmod(w.fs, d, mode, Disk(w)))

\* CopyFile after io.Copy: out.Sync(), os.Stat(src)
CopyFileSync(w, s, d) ==
  IF w.flt = "sync" THEN CopyFileDefers(errorPrinter(w), "EIO", TRUE)
  ELSE LET Got(si) ==
             IF si.err # "" THEN CopyFileDefers(errorPrinter(w), si.err, TRUE)
             ELSE CopyFileChmod(w, d, w.fs[si.key].mode)
       IN Got(IF w.flt = "stat" THEN Fail("EIO") ELSE osStat(w.fs, s))

\* CopyFile with both files open: io.Copy(out, in) reads the source as it is
\* after os.Create
CopyFileCopy(w, s, d, inKey, outKey) ==
  LET Got(wr) ==
        IF wr.err # "" THEN CopyFileDefers(errorPrinter(w), wr.err, TRUE)
        ELSE CopyFileSync([w EXCEPT !.fs = wr.fs], s, d)
  IN Got(IF w.fs[inKey].kind = "dir" THEN [err |-> "EISDIR", fs |-> w.fs]
         ELSE IF w.flt = "copy" THEN [err |-> "EIO", fs |-> w.fs]
         ELSE osWrite(w.fs, outKey, w.fs[inKey].data, Disk(w)))

\* CopyFile with the source open: os.Create(dst)
CopyFileCreate(w, s, d, inKey) ==
  LET Got(out) ==
        IF out.err # "" THEN CopyFileDefers(errorPrinter(w), out.err, FALSE)
        ELSE CopyFileCopy(Opened([w EXCEPT !.fs = out.fs]), s, d, inKey, out.key)
  IN Got(IF NoDescriptor(w) THEN [err |-> "EMFILE", key |-> <<>>, fs |-> w.fs]
         ELSE osCreate(w.fs, d, Disk(w)))

\* CopyFile
CopyFile(w, src, dst) ==
  LET Got(in) ==
        IF in.err # "" THEN [w |-> errorPrinter(w), err |-> in.err]
        ELSE CopyFileCreate(Opened(w), cleanPath(src), cleanPath(dst), in.key)
  IN Got(IF NoDescriptor(w) THEN Fail("EMFILE") ELSE osOpen(w.fs, cleanPath(src)))

\* FileExists
FileExists(f, name) ==
  LET Got(st) ==
        IF IsNotExist(st.err) THEN FALSE
        ELSE IF st.err = "" THEN TRUE
        ELSE FALSE
  IN Got(osStat(f, name))

\* MkdirAll
MkdirAll(w, path, perm) ==
  LET Got(mk) ==
        IF mk.err # "" THEN [w |-> w, err |-> mk.err]
        ELSE [w |-> [w EXCEPT !.fs = mk.fs], err |-> ""]
      Cleaned(p) ==
        IF FileExists(w.fs, p) = TRUE THEN [w |-> w, err |-> ""]
        ELSE Got(osMkdirAll(w.fs, p, perm, Disk(w)))
  IN Cleaned(cleanPath(path))

\* Mkdir
Mkdir(w, name, perm) ==
  LET Got(mk) ==
        IF mk.err # "" THEN [w |-> errorPrinter(w), err |-> mk.err]
        ELSE [w |-> [w EXCEPT !.fs = mk.fs], err |-> ""]
  IN Got(osMkdir(w.fs, cleanPath(name), perm, Disk(w)))

\* os.WriteFile: O_WRONLY|O_CREATE|O_TRUNC, write, close
osWriteFile(f, s, content, perm, disk) ==
  LET Got(file) ==
        IF file.err # "" THEN [err |-> file.err, fs |-> f]
        ELSE osWrite(file.fs, file.key, content, disk)
  IN Got(osOpenWrite(f, s, perm, TRUE, disk))

\* WriteFile
WriteFile(w, name, content, perm) ==
  LET Got(wr) ==
        IF wr.err # "" THEN [w |-> [w EXCEPT !.fs = wr.fs], err |-> wr.err]
        ELSE [w |-> [w EXCEPT !.fs = wr.fs], err |-> ""]
  IN Got(osWriteFile(w.fs, cleanPath(name), content, perm, Disk(w)))

\* os.Remove: a file, a symbolic link or an empty directory
osRemove(f, s, disk) ==
  LET At(r) ==
        IF r.err # "" THEN [err |-> r.err, fs |-> f]
        ELSE IF r.key = Root THEN [err |-> "EBUSY", fs |-> f]
        ELSE IF Children(f, r.key) # {} THEN [err |-> "ENOTEMPTY", fs |-> f]
        ELSE IF disk = "ro" THEN [err |-> "EROFS", fs |-> f]
        ELSE [err |-> "", fs |-> Drop(f, {r.key})]
  IN At(Lookup(f, s, FALSE))

\* Delete
Delete(w, name) ==
  LET Got(rm) ==
        IF rm.err # "" THEN [w |-> errorPrinter(w), err |-> rm.err]
        ELSE [w |-> [w EXCEPT !.fs = rm.fs], err |-> ""]
  IN Got(osRemove(w.fs, name, Disk(w)))

\* os.RemoveAll: the entry and everything below it; a missing path is no error
osRemoveAll(f, s, disk) ==
  LET At(r) ==
        IF s = <<>> THEN [err |-> "", fs |-> f]
        ELSE IF s = Dot \/ (Len(s) >= 2 /\ s[Len(s)] = "." /\ s[Len(s) - 1] = "/")
          THEN [err |-> "EINVAL", fs |-> f]
        ELSE IF IsNotExist(r.err) THEN [err |-> "", fs |-> f]
        ELSE IF r.err # "" THEN [err |-> r.err, fs |-> f]
        ELSE IF r.key = Root THEN [err |-> "EBUSY", fs |-> f]
        ELSE IF disk = "ro" THEN [err |-> "EROFS", fs |-> f]
        ELSE [err |-> "", fs |-> Drop(f, {k \in DOMAIN f : IsPrefix(r.key, k)})]
  IN At(Lookup(f, s, FALSE))

\* RemoveAll
RemoveAll(w, path) ==
  LET Got(oserr) == [w |-> [w EXCEPT !.fs = oserr.fs], err |-> oserr.err]
  IN Got(osRemoveAll(w.fs, cleanPath(path), Disk(w)))

\* filepath.Base
Base(name) ==
  IF name = <<>> THEN Dot
  ELSE LET Trimmed(t) ==
             IF t = <<>> THEN <<"/">>
             ELSE SubSeq(t, Len(TrimElement(t)) + 1, Len(t))
       IN Trimmed(TrimSlashes(name))

\* Stat: the FileInfo of a path
Stat(f, name) ==
  LET Got(st) ==
        IF st.err # ""
          THEN [err |-> st.err, Name |-> <<>>, IsDir |-> FALSE, Mode |-> 0, Size |-> 0]
        ELSE [err |-> "", Name |-> Base(name), IsDir |-> f[st.key].kind = "dir",
              Mode |-> f[st.key].mode, Size |-> Len(f[st.key].data)]
  IN Got(osStat(f, name))

\* the FileInfo ReadDir makes of one entry, from entry.Info() (an lstat)
EntryInfo(f, key) ==
  [Name |-> key[Len(key)], IsDir |-> f[key].kind = "dir",
   Mode |-> f[key].mode, Size |-> Len(f[key].data)]

\* ReadDir
ReadDir(w, dirName) ==
  LET Sorted(w1, key, dirs) ==
        IF dirs # <<>> /\ w1.flt = "info" THEN [w |-> Closed(w1), err |-> "EIO", infos |-> <<>>]
        ELSE [w |-> Closed(w1), err |-> "",
              infos |-> [i \in 1..Len(dirs) |-> EntryInfo(w1.fs, Append(key, dirs[i]))]]
      Listed(w1, key, rd) ==
        IF rd # "" THEN [w |-> Closed(w1), err |-> rd, infos |-> <<>>]
        ELSE Sorted(w1, key, SortSlice(DirOrder(EntryNames(w1.fs, key))))
      OpenDir(w1, key) ==
        Listed(w1, key, IF w1.fs[key].kind # "dir" THEN "ENOTDIR"
                        ELSE IF w1.flt = "readdir" THEN "EIO" ELSE "")
      Got(file) ==
        IF file.err # "" THEN [w |-> w, err |-> file.err, infos |-> <<>>]
        ELSE OpenDir(Opened(w), file.key)
  IN Got(IF NoDescriptor(w) THEN Fail("EMFILE") ELSE osOpen(w.fs, dirName))

\* CopyDir, CopyDirStat .. CopyDirRead its steps in turn, CopyDirEntries its
\* loop over the entries read from src
RECURSIVE CopyDir(_, _, _)
RECURSIVE CopyDirStat(_, _, _)
RECURSIVE CopyDirMake(_, _, _, _)
RECURSIVE CopyDirRead(_, _, _)
RECURSIVE CopyDirEntries(_, _, _, _)

CopyDir(w, src, dst) == CopyDirStat(w, cleanPath(src), cleanPath(dst))

\* os.Stat(src), the directory test, os.Stat(dst)
CopyDirStat(w, src, dst) ==
  LET Got(si) ==
        IF si.err # "" THEN [w |-> errorPrinter(w), err |-> si.err]
        ELSE IF w.fs[si.key].kind # "dir" THEN [w |-> w, err |-> "source is not a directory"]
        ELSE IF ~IsNotExist(osStat(w.fs, dst).err)
          THEN [w |-> errorPrinter(w), err |-> "destination already exists"]
        ELSE CopyDirMake(w, src, dst, w.fs[si.key].mode)
  IN Got(osStat(w.fs, src))

\* os.MkdirAll(dst, si.Mode())
CopyDirMake(w, src, dst, mode) ==
  LET Got(mk) ==
        IF mk.err # "" THEN [w |-> errorPrinter(w), err |-> mk.err]
        ELSE CopyDirRead([w EXCEPT !.fs = mk.fs], src, dst)
  IN Got(osMkdirAll(w.fs, dst, mode, Disk(w)))

\* os.ReadDir(src)
CopyDirRead(w, src, dst) ==
  LET Got(rd) ==
        IF rd.err # "" THEN [w |-> errorPrinter(w), err |-> rd.err]
        ELSE CopyDirEntries(w, src, dst,
               [i \in 1..Len(rd.names) |->
                  [name |-> rd.names[i], kind |-> w.fs[Append(rd.key, rd.names[i])].kind]])
  IN Got(IF w.flt = "readdir" THEN [err |-> "EIO", key |-> <<>>, names |-> <<>>]
         ELSE osReadDir(w.fs, src))

\* what CopyDir does with the result of copying one entry
CopyDirNext(r, src, dst, entries) ==
  IF r.err # "" THEN [w |-> errorPrinter(errorPrinter(r.w)), err |-> r.err]
  ELSE CopyDirEntries(r.w, src, dst, Tail(entries))

CopyDirEntries(w, src, dst, entries) ==
  IF entries = <<>> THEN [w |-> w, err |-> ""]
  ELSE IF Head(entries).kind = "dir"
    THEN CopyDirNext(CopyDir(w, Join(src, Head(entries).name), Join(dst, Head(entries).name)),
                     src, dst, entries)
  ELSE IF Head(entries).kind = "link" THEN CopyDirEntries(w, src, dst, Tail(entries))
  ELSE CopyDirNext(CopyFile(w, Join(src, Head(entries).name), Join(dst, Head(entries).name)),
                   src, dst, entries)

\* RecurseFS.  base is the number of entries the traversal has accumulated
\* when the call starts; cut is -1 while no Stat or ReadDir call has failed
\* and otherwise the number of entries accumulated when the first one failed.
RECURSIVE RecurseFS(_, _, _)
RECURSIVE RecurseListed(_, _, _, _, _)
RECURSIVE RecurseEmit(_, _, _)
RECURSIVE RecurseStat(_, _, _, _, _)
RECURSIVE RecurseStatBreak(_, _, _, _, _)
RECURSIVE RecurseFiles(_, _, _, _, _, _)
RECURSIVE RecurseChild(_, _, _, _, _, _)

RecurseFS(w, path, base) == RecurseListed(w, path, base, Stat(w.fs, path), ReadDir(w, path))

\* RecurseFS with the results of Stat(path) and ReadDir(path)
RecurseListed(w, path, base, stat, temp) ==
  IF stat.err # "" THEN [w |-> w, out |-> <<>>, cut |-> base]
  ELSE IF temp.err # "" THEN [w |-> temp.w, out |-> <<>>, cut |-> base]
  ELSE IF stat.IsDir
    THEN RecurseEmit(path, base, RecurseStat(temp.w, path, temp.infos, <<>>, FALSE))
  ELSE RecurseFiles(temp.w, path, <<>>, <<>>, base, -1)

\* RecurseFS with the files its first loop has kept
RecurseEmit(path, base, st) ==
  RecurseFiles(st.w, path, st.files, <<>>, base, IF st.failed THEN base ELSE -1)

\* a first loop that ends at the first Stat that fails
RecurseStatBreak(w, path, infos, files, failed) ==
  IF infos = <<>> THEN [w |-> w, files |-> files, failed |-> failed]
  ELSE LET Got(fileInfo) ==
             IF fileInfo.err # ""
               THEN [w |-> errorPrinter(w), files |-> files, failed |-> TRUE]
             ELSE RecurseStatBreak(w, path, Tail(infos), Append(files, fileInfo), failed)
       IN Got(Stat(w.fs, Join(path, Head(infos).Name)))

\* the first loop of RecurseFS: Stat of every entry, failures skipped
RecurseStat(w, path, infos, files, failed) ==
  IF infos = <<>> THEN [w |-> w, files |-> files, failed |-> failed]
  ELSE LET Got(fileInfo) ==
             IF fileInfo.err # ""
               THEN RecurseStat(errorPrinter(w), path, Tail(infos), files, TRUE)
             ELSE RecurseStat(w, path, Tail(infos), Append(files, fileInfo), failed)
       IN Got(Stat(w.fs, Join(path, Head(infos).Name)))

\* the second loop of RecurseFS: emit every entry, recurse into directories
RecurseFiles(w, path, files, out, base, cut) ==
  IF files = <<>> THEN [w |-> w, out |-> out, cut |-> cut]
  ELSE IF Head(files).IsDir
    THEN RecurseChild(path, files, Append(out, <<"*">> \o path \o <<"/">> \o Head(files).Name),
                      base, cut,
                      RecurseFS(w, path \o <<"/">> \o Head(files).Name, base + Len(out) + 1))
  ELSE RecurseFiles(w, path, Tail(files), Append(out, path \o <<"/">> \o Head(files).Name),
                    base, cut)

\* the second loop after the traversal of a sub-directory
RecurseChild(path, files, out, base, cut, child) ==
  RecurseFiles(child.w, path, Tail(files), out \o child.out, base,
               IF cut = -1 THEN child.cut ELSE cut)

(***************************************************************************)
(* The state machine: an application calling the facade, one call at a     *)
(* time, and an environment that makes symbolic links, creates and removes *)
(* the debug marker and lets the minute that names the log file pass.      *)
(* Each call runs under a condition of the environment chosen with it: the *)
(* disk full, the disk read-only, or one system call failing with an I/O   *)
(* error.                                                                  *)
(***************************************************************************)
P(a) == <<a>>

\* the path arguments the application passes
RawPaths == {P("a"), P("b"), P("c"), P("."), <<"a", "/", "a">>,
             <<"a", "/", ":", "b">>}

\* what symbolic links point at
LinkTargets == {<<P("b")>>}

\* where the environment makes symbolic links
LinkKeys == {<<P("a")>>, <<P("a"), P("a")>>}

\* the arguments of the copying calls
CopyPaths == {P("a"), P("b"), P("c"), <<"a", "/", "a">>, <<"a", "/", ":", "b">>}

Contents == {<<"x">>}
FileModes == {384}
DirModes == {493}
DiskFaults == {"none", "full", "ro"}

NoCall == [op |-> "none", src |-> <<>>, dst |-> <<>>, err |-> "", out |-> <<>>,
           cut |-> -1, open |-> 0, crash |-> FALSE, lines |-> 0, flt |-> "none",
           pre |-> <<>>]

Init ==
  /\ fs = [k \in {Root} |-> DirNode(493)]
  /\ debug = FALSE
  /\ logLines = 0
  /\ last = NoCall

Idle == last.op = "none"

\* a call starts in a filesystem within the bounds
Ready ==
  /\ Idle
  /\ Cardinality(DOMAIN fs) - 1 <= MaxNodes
  /\ logLines <= MaxLog

Within(f) == \A k \in DOMAIN f : Len(f[k].data) <= MaxLen

\* the call op(src, dst) has returned r (or aborted the process)
Returned(op, src, dst, flt, r, out, cut) ==
  /\ Within(r.w.fs)
  /\ fs' = r.w.fs
  /\ logLines' = r.w.log
  /\ last' = [op |-> op, src |-> src, dst |-> dst, err |-> r.err, out |-> out,
              cut |-> cut, open |-> r.w.open, crash |-> r.w.crash,
              lines |-> r.w.log - logLines, flt |-> flt, pre |-> fs]
  /\ UNCHANGED debug

\* the descriptor limit decides something only where errorPrinter recurses:
\* with the marker present and the disk full
NoFile(flt) == IF debug /\ flt = "full" THEN {FdLow, FdHigh} ELSE {FdHigh}

Start(flt, nofile) == World(fs, logLines, flt, nofile)

DoAppend ==
  /\ Ready
  /\ \E name \in RawPaths, flt \in DiskFaults :
       \E nofile \in NoFile(flt) :
       Returned("Append", name, <<>>, flt,
                AppendStringToFile(Start(flt, nofile), name, <<"x">>), <<>>, -1)

DoWriteFile ==
  /\ Ready
  /\ \E name \in RawPaths, content \in Contents, perm \in FileModes, flt \in DiskFaults :
       \E nofile \in NoFile(flt) :
       Returned("WriteFile", name, <<>>, flt,
                WriteFile(Start(flt, nofile), name, content, perm), <<>>, -1)

DoMkdir ==
  /\ Ready
  /\ \E name \in RawPaths, perm \in DirModes, flt \in {"none", "ro"} :
       \E nofile \in NoFile(flt) :
       Returned("Mkdir", name, <<>>, flt, Mkdir(Start(flt, nofile), name, perm), <<>>, -1)

DoMkdirAll ==
  /\ Ready
  /\ \E path \in RawPaths, perm \in DirModes, flt \in {"none", "ro"} :
       \E nofile \in NoFile(flt) :
       Returned("MkdirAll", path, <<>>, flt, MkdirAll(Start(flt, nofile), path, perm), <<>>, -1)

DoOpen ==
  /\ Ready
  /\ \E name \in RawPaths, flt \in DiskFaults :
       \E nofile \in NoFile(flt) :
       Returned("Open", name, <<>>, flt, Open(Start(flt, nofile), name), <<>>, -1)

DoCreate ==
  /\ Ready
  /\ \E name \in RawPaths, flt \in {"none", "ro"} :
       \E nofile \in NoFile(flt) :
       Returned("Create", name, <<>>, flt, Create(Start(flt, nofile), name), <<>>, -1)

DoDelete ==
  /\ Idle
  /\ logLines <= MaxLog
  /\ \E name \in RawPaths, flt \in {"none", "ro"} :
       \E nofile \in NoFile(flt) :
       Returned("Delete", name, <<>>, flt, Delete(Start(flt, nofile), name), <<>>, -1)

DoRemoveAll ==
  /\ Idle
  /\ logLines <= MaxLog
  /\ \E path \in RawPaths, flt \in {"none", "ro"} :
       \E nofile \in NoFile(flt) :
       Returned("RemoveAll", path, <<>>, flt, RemoveAll(Start(flt, nofile), path), <<>>, -1)

DoCopyFile ==
  /\ Ready
  /\ \E src \in CopyPaths, dst \in CopyPaths,
        flt \in DiskFaults \cup {"copy", "sync", "stat", "chmod", "close"} :
       \E nofile \in NoFile(flt) :
       Returned("CopyFile", src, dst, flt, CopyFile(Start(flt, nofile), src, dst), <<>>, -1)

DoCopyDir ==
  /\ Ready
  /\ \E src \in CopyPaths, dst \in CopyPaths, flt \in DiskFaults \cup {"readdir", "sync"} :
       \E nofile \in NoFile(flt) :
       Returned("CopyDir", src, dst, flt, CopyDir(Start(flt, nofile), src, dst), <<>>, -1)

DoStat ==
  /\ Ready
  /\ \E name \in RawPaths :
       LET Got(st) ==
             Returned("Stat", name, <<>>, "none", [w |-> Start("none", FdHigh), err |-> st.err],
                      IF st.err = "" THEN <<st.Name>> ELSE <<>>, -1)
       IN Got(Stat(fs, name))

DoReadDir ==
  /\ Ready
  /\ \E dirName \in RawPaths, flt \in {"none", "readdir", "info"} :
       \E nofile \in NoFile(flt) :
       LET Got(rd) ==
             Returned("ReadDir", dirName, <<>>, flt, rd,
                      [i \in 1..Len(rd.infos) |-> rd.infos[i].Name], -1)
       IN Got(ReadDir(Start(flt, nofile), dirName))

DoRecurseFS ==
  /\ Ready
  /\ \E path \in RawPaths, flt \in DiskFaults \cup {"readdir"} :
       \E nofile \in NoFile(flt) :
       LET Got(r) ==
             Returned("RecurseFS", path, <<>>, flt, [w |-> r.w, err |-> ""], r.out, r.cut)
       IN Got(RecurseFS(Start(flt, nofile), path, 0))

\* the application has taken the result of the call
Done ==
  /\ ~Idle
  /\ last' = NoCall
  /\ UNCHANGED <<fs, debug, logLines>>

\* another process makes a symbolic link
EnvSymlink ==
  /\ Idle
  /\ Cardinality(DOMAIN fs) - 1 < MaxNodes
  /\ \E key \in LinkKeys, tgt \in LinkTargets :
       /\ key \notin DOMAIN fs
       /\ Parent(key) \in DOMAIN fs
       /\ fs[Parent(key)].kind = "dir"
       /\ fs' = Put(fs, key, LinkNode(tgt))
  /\ UNCHANGED <<debug, logLines, last>>

\* GMSFS.Debug is created or removed
EnvDebug ==
  /\ Idle
  /\ debug' = ~debug
  /\ UNCHANGED <<fs, logLines, last>>

\* the minute passes: the next line goes to a new log file
EnvMinute ==
  /\ Idle
  /\ logLines > 0
  /\ logLines' = 0
  /\ UNCHANGED <<fs, debug, last>>

Next ==
  \/ DoAppend
  \/ DoWriteFile
  \/ DoMkdir
  \/ DoMkdirAll
  \/ DoOpen
  \/ DoCreate
  \/ DoDelete
  \/ DoRemoveAll
  \/ DoCopyFile
  \/ DoCopyDir
  \/ DoStat
  \/ DoReadDir
  \/ DoRecurseFS
  \/ Done
  \/ EnvSymlink
  \/ EnvDebug
  \/ EnvMinute

Spec == Init /\ [][Next]_vars

(***************************************************************************)
(* Properties of the calls.  last holds the call that has just ended, the  *)
(* filesystem it started in (pre) and what it gave back.                   *)
(***************************************************************************)
\* the call has returned to the application
ReturnedFrom(op) == last.op = op /\ ~last.crash

\* the path leads to a regular file / to a directory
IsFileAt(f, s) == LET r == osStat(f, s) IN r.err = "" /\ f[r.key].kind = "file"
IsDirAt(f, s) == LET r == osStat(f, s) IN r.err = "" /\ f[r.key].kind = "dir"

\* the path has an entry, be it a dangling symbolic link
ExistsAt(f, s) == osLstat(f, s).err = ""

\* C1: when CopyFile(src, dst) has returned nil for a regular file src, dst is
\* a regular file with the bytes and the mode src had when the call started,
\* also when dst names the file src names.
C1_CopyFileRoundTrip ==
  (ReturnedFrom("CopyFile") /\ last.err = "" /\ IsFileAt(last.pre, cleanPath(last.src))) =>
    LET s == osStat(last.pre, cleanPath(last.src))
        d == osStat(fs, cleanPath(last.dst))
    IN /\ IsFileAt(fs, cleanPath(last.dst))
       /\ fs[d.key].data = last.pre[s.key].data
       /\ fs[d.key].mode = last.pre[s.key].mode

\* C2: a CopyDir(src, dst) that returns, called where dst already exists,
\* returns an error and leaves the filesystem as it was.
C2_CopyDirExistingDst ==
  (ReturnedFrom("CopyDir") /\ ExistsAt(last.pre, cleanPath(last.dst))) =>
    (last.err # "" /\ fs = last.pre)

\* CopyDir was refused a non-empty directory because dst was there
C2_Witness ==
  /\ ReturnedFrom("CopyDir")
  /\ ExistsAt(last.pre, cleanPath(last.dst))
  /\ IsDirAt(last.pre, cleanPath(last.src))
  /\ EntryNames(last.pre, osStat(last.pre, cleanPath(last.src)).key) # {}
  /\ last.err = "destination already exists"

\* the entries below key, each with the names that lead to it from key
Shape(f, key, kinds) ==
  {[names |-> SubSeq(k, Len(key) + 1, Len(k)), kind |-> f[k].kind, data |-> f[k].data] :
     k \in {x \in DOMAIN f : IsPrefix(key, x) /\ x # key /\ f[x].kind \in kinds}}

\* C3: when CopyDir(src, dst) has returned nil for a directory src and a dst
\* that did not exist, dst is a directory holding the directories and the
\* regular files of src, under the same names and with the same contents, and
\* nothing else; symbolic links are left out.
C3_CopyDirTreeShape ==
  (/\ ReturnedFrom("CopyDir")
   /\ last.err = ""
   /\ IsDirAt(last.pre, cleanPath(last.src))
   /\ ~ExistsAt(last.pre, cleanPath(last.dst))) =>
    /\ IsDirAt(fs, cleanPath(last.dst))
    /\ Shape(fs, osStat(fs, cleanPath(last.dst)).key, {"dir", "file", "link"})
         = Shape(last.pre, osStat(last.pre, cleanPath(last.src)).key, {"dir", "file"})

\* C4: a CopyFile(src, dst) that returns, called where src does not exist,
\* returns the not-found error and makes no entry at dst.
C4_CopyFileMissingSrc ==
  (ReturnedFrom("CopyFile") /\ osStat(last.pre, cleanPath(last.src)).err = "ENOENT") =>
    /\ IsNotExist(last.err)
    /\ (ExistsAt(fs, cleanPath(last.dst)) => ExistsAt(last.pre, cleanPath(last.dst)))
    /\ fs = last.pre

\* CopyFile of a missing src to a dst that is not there either
C4_Witness ==
  /\ ReturnedFrom("CopyFile")
  /\ osStat(last.pre, cleanPath(last.src)).err = "ENOENT"
  /\ ~ExistsAt(last.pre, cleanPath(last.dst))
  /\ last.err = "ENOENT"

\* C5: when Append, CopyFile or ReadDir returns, with an error or without,
\* every handle the call opened is closed.
C5_HandlesClosed ==
  (last.op \in {"Append", "CopyFile", "ReadDir"} /\ ~last.crash) => last.open = 0

\* CopyFile failed at its last step, both files open
C5_Witness ==
  /\ ReturnedFrom("CopyFile")
  /\ last.flt = "chmod"
  /\ last.err = "EPERM"
  /\ last.open = 0

\* the operations that report their failure with one call of errorPrinter, and
\* those that return it unreported
Reporting == {"Open", "Create", "Delete", "Mkdir"}
Unreporting == {"WriteFile", "MkdirAll", "RemoveAll", "Append", "Stat", "ReadDir"}

\* the log file can be written during the call
LogWritable == last.flt \notin {"full", "ro"}

\* C6: with GMSFS.Debug present, a call that returns an error has appended
\* exactly one line to the log file, whatever the operation.
C6_EveryFailureOneLine ==
  (debug /\ last.op # "none" /\ ~last.crash /\ last.err # "") => last.lines = 1

\* C6, as the code has it: with GMSFS.Debug present and the log file writable,
\* a failed Open, Create, Delete or Mkdir has appended exactly one line, and so
\* has a failed CopyFile, except that a failure to close dst is not reported
\* (then at most one line); a failed WriteFile, MkdirAll, RemoveAll, Append, Stat or
\* ReadDir has appended none; a failed CopyDir has appended none when src is
\* no directory and at least one otherwise.
C6_FailureLines ==
  (debug /\ LogWritable /\ ~last.crash /\ last.err # "") =>
    /\ last.op \in Reporting => last.lines = 1
    /\ last.op \in Unreporting => last.lines = 0
    /\ last.op = "CopyFile" =>
         IF last.flt = "close" THEN last.lines <= 1 ELSE last.lines = 1
    /\ last.op = "CopyDir" =>
         IF osStat(last.pre, cleanPath(last.src)).err = ""
              /\ ~IsDirAt(last.pre, cleanPath(last.src))
           THEN last.lines = 0
         ELSE last.lines >= 1

\* a failed call of each kind, the marker present and the log writable
C6_Witness ==
  /\ debug
  /\ LogWritable
  /\ ~last.crash
  /\ last.err # ""
  /\ \/ last.op = "CopyFile" /\ last.lines = 1
     \/ last.op = "WriteFile" /\ last.lines = 0

\* C7: a call during which the log file cannot be written returns; the calls
\* errorPrinter -> AppendStringToFile -> Append -> errorPrinter never end the
\* process.
C7_LogFailureIgnored ==
  (debug /\ last.op # "none" /\ ~LogWritable) => ~last.crash

\* lexicographic order of sequences of names, name by name
RECURSIVE NamesLess(_, _)
NamesLess(p, q) ==
  IF p = <<>> THEN q # <<>>
  ELSE IF q = <<>> THEN FALSE
  ELSE IF Head(p) = Head(q) THEN NamesLess(Tail(p), Tail(q))
  ELSE StrLess(Head(p), Head(q))

\* a set of entries [names, dir] in that order
RECURSIVE InOrder(_)
InOrder(S) ==
  IF S = {} THEN <<>>
  ELSE LET m == CHOOSE x \in S : \A y \in S \ {x} : NamesLess(x.names, y.names)
       IN <<m>> \o InOrder(S \ {m})

\* path + "/" + name + ... + "/" + name
RECURSIVE Under(_, _)
Under(path, names) ==
  IF names = <<>> THEN path
  ELSE Under(path \o <<"/">> \o Head(names), Tail(names))

\* the lines of a listing of path: the entries in order, a directory starred
Lines(path, S) ==
  LET es == InOrder(S) IN
    [i \in 1..Len(es) |->
       (IF es[i].dir THEN <<"*">> ELSE <<>>) \o Under(path, es[i].names)]

\* the entries of the tree below the directory at key, symbolic links followed
RECURSIVE Below(_, _, _, _)
Below(f, key, names, fuel) ==
  UNION {LET r == Walk(f, <<n>>, key, TRUE, MaxSymlinks) IN
           IF r.err # "" THEN {}
           ELSE {[names |-> Append(names, n), dir |-> f[r.key].kind = "dir"]}
                \cup (IF f[r.key].kind = "dir" /\ fuel > 0
                        THEN Below(f, r.key, Append(names, n), fuel - 1)
                      ELSE {})
         : n \in EntryNames(f, key)}

\* C8: when no Stat and no ReadDir fails, RecurseFS(path) returns every entry
\* below path once, in pre-order with the entries of each directory sorted by
\* name: a directory as "*" + parent + "/" + name, followed by its subtree
\* and then by its later siblings; a file as parent + "/" + name.
C8_RecurseFSPreOrder ==
  (ReturnedFrom("RecurseFS") /\ last.cut = -1 /\ IsDirAt(last.pre, last.src)) =>
    last.out = Lines(last.src, Below(last.pre, osStat(last.pre, last.src).key, <<>>, PathMax))

\* a listing with a sub-directory, an entry of it and a later sibling
C8_Witness ==
  /\ ReturnedFrom("RecurseFS")
  /\ last.cut = -1
  /\ Len(last.out) = 3
  /\ Head(last.out[1]) = "*"
  /\ IsPrefix(Tail(last.out[1]), last.out[2])
  /\ ~IsPrefix(Tail(last.out[1]), last.out[3])

\* C9: when a Stat or a ReadDir fails during RecurseFS(path), the traversal
\* stops there: the result is the entries accumulated before the failure and
\* nothing after them.
C9_StopsAtFirstFailure ==
  (ReturnedFrom("RecurseFS") /\ last.cut # -1) => Len(last.out) = last.cut

\* the entries a traversal of path keeps: below a directory that can be
\* statted and listed, every entry whose Stat succeeds, and what is kept
\* below those that are directories
RECURSIVE Kept(_, _, _)
Kept(w, path, names) ==
  LET dir == Under(path, names)
      listed == ReadDir(w, dir)
  IN IF Stat(w.fs, dir).err # "" \/ listed.err # "" THEN {}
     ELSE UNION {LET st == Stat(w.fs, Join(dir, listed.infos[i].Name)) IN
                   IF st.err # "" THEN {}
                   ELSE {[names |-> Append(names, listed.infos[i].Name), dir |-> st.IsDir]}
                        \cup (IF st.IsDir
                                THEN Kept(w, path, Append(names, listed.infos[i].Name))
                              ELSE {})
                 : i \in 1..Len(listed.infos)}

\* C9, as the code has it: RecurseFS(path) goes on after a failure.  It leaves
\* out an entry whose Stat fails, and the subtree of a directory that cannot
\* be statted or listed, and returns every other entry, those after the
\* failure too, in sorted pre-order; the result is empty only when path
\* itself cannot be statted or listed, or holds nothing that can be.
C9_SkipsFailures ==
  ReturnedFrom("RecurseFS") =>
    last.out = Lines(last.src, Kept(World(last.pre, 0, last.flt, FdHigh), last.src, <<>>))

\* a traversal returned entries found after its first failure
C9_Witness ==
  /\ ReturnedFrom("RecurseFS")
  /\ last.cut # -1
  /\ Len(last.out) > last.cut

\* C10: when MkdirAll(path, perm) has returned nil, path is a directory; where
\* path was there before the call, the filesystem is as it was.
C10_MkdirAllDirectory ==
  (ReturnedFrom("MkdirAll") /\ last.err = "") =>
    /\ IsDirAt(fs, cleanPath(last.src))
    /\ (ExistsAt(last.pre, cleanPath(last.src)) => fs = last.pre)

====
